---------------------------- MODULE Spec2Model ----------------------------
(***************************************************************************)
(* A model of the hive ECS runtime core: the Store (entity IDs with        *)
(* recycling, component maps), the World (priority-ordered systems), the   *)
(* CommandDispatcher queue, the CommandRouter and Runtime.step.            *)
(*                                                                         *)
(* It also covers the EventBus, the ResourceRegistry and the snapshot      *)
(* serializer.                                                             *)
(*                                                                         *)
(* The specifications:                                                     *)
(*   Spec           the Store driven by a host calling its methods;        *)
(*   SpecQuery      the component maps and the queries over them;          *)
(*   SpecRuntime    the Runtime driven by a host that registers systems    *)
(*                  and handlers and then calls Runtime.step;              *)
(*   SpecWorld      World.register and World.step alone, with systems of   *)
(*                  any priority;                                          *)
(*   SpecDispatcher the CommandDispatcher used directly (dispatch, pop,    *)
(*                  pop_all, process);                                     *)
(*   SpecRouter     the CommandRouter used directly (register,            *)
(*                  unregister, handle_all);                               *)
(*   SpecBus        the EventBus (on, off, emit);                          *)
(*   SpecSerialize  snapshot of a world and load_into_world into a fresh   *)
(*                  one;                                                   *)
(*   SpecResources  the ResourceRegistry (register, get, get_or, has);     *)
(*   SpecAbandon    the Store's IDs, remembering the IDs destroyed while   *)
(*                  the free list was full;                                *)
(*   SpecCleanup    Runtime.step over a store holding entities marked      *)
(*                  Destroyed, with systems that destroy them;             *)
(*   SpecFailures   Runtime.step with three systems, any of which may      *)
(*                  raise.                                                 *)
(***************************************************************************)
EXTENDS Integers, Sequences, FiniteSets, TLC

\* ------------------------------------------------------------------ bounds
\* Store.MAX_FREE_IDS is 10000 in src/src/store.py:21; the model scales the
\* cap down so that the cap is reached within the bounds.
MAX_FREE_IDS == 2

\* Entity IDs the host may name are 0..MaxId; the monotonic counter is capped
\* at MaxId + 1.
MaxId == 3

\* add_component is exercised on the entities 0..MaxCompId.
MaxCompId == 0

NoId == 0 - 1

Ids == 0..MaxId

CompIds == 0..MaxCompId

\* Component types (Python classes) and component values.
Types == {"A", "B"}

Values == {1}

VARIABLES
    next_id,      \* Store._next_id
    free_ids,     \* Store._free_ids (a Python list used as a stack)
    components,   \* Store._components: type -> (entity -> component)
    live,         \* history: IDs returned by create_entity and not destroyed since
    freed,        \* history: IDs in the order destroy_entity put them on the free list
    run,          \* history: number of consecutive destroy_entity calls on live IDs
    abandoned,    \* history, kept in SpecAbandon only: IDs passed to
                  \* destroy_entity while the free list was full
    last          \* history: the Store call just made: op, its argument id, what it
                  \* returned (ret), whether the ID concerned was live before the
                  \* call (wasLive), the component types it held before the call
                  \* (had); atCap: for destroy, the free list was full before the
                  \* call; for create, the preceding call was a destroy_entity of
                  \* a live entity made while the free list was full; stripped:
                  \* for create, the component types the preceding call took
                  \* from the ID returned, if it was a destroy_entity of that ID

storeVars == <<next_id, free_ids, components, live, freed, run, abandoned, last>>

\* ------------------------------------------------------------ dict helpers
Range(s) == {s[i] : i \in DOMAIN s}

EmptyMap == [x \in {} |-> 0]

\* dict.pop(key, None) / del dict[key]
DictPop(m, k) == [x \in (DOMAIN m) \ {k} |-> m[x]]

\* dict[key] = value
DictPut(m, k, v) == [x \in (DOMAIN m) \cup {k} |-> IF x = k THEN v ELSE m[x]]

\* dict.get(key, {})
DictGet(m, k) == IF k \in DOMAIN m THEN m[k] ELSE EmptyMap

\* a sequence without the first occurrence of x
Without(s, x) ==
    LET i == CHOOSE j \in DOMAIN s : s[j] = x /\ \A k \in 1..(j - 1) : s[k] # x
    IN  IF x \in Range(s) THEN SubSeq(s, 1, i - 1) \o SubSeq(s, i + 1, Len(s)) ELSE s

\* ------------------------------------------------------------------- Store
\* list.pop(): the element create_entity takes from the free list
PopFreeId_first(free) == free[1]

PopFreeId(free) == free[Len(free)]

\* the free list after list.pop()
AfterPop(free) == SubSeq(free, 1, Len(free) - 1)

\* destroy_entity, lines 58-59: pop the entity from every component map
RemoveAll_firstTypeOnly(comps, entity) ==
    [t \in DOMAIN comps |-> IF t = "A" THEN DictPop(comps[t], entity) ELSE comps[t]]

RemoveAll(comps, entity) == [t \in DOMAIN comps |-> DictPop(comps[t], entity)]

\* destroy_entity, line 63: entity in self._free_ids
InFreeList_never(free, entity) == FALSE

InFreeList(free, entity) == entity \in Range(free)

\* destroy_entity, lines 62-64: recycle the ID unless the free list is full
RecycleId_nocap(free, entity) ==
    IF ~InFreeList(free, entity) THEN Append(free, entity) ELSE free

RecycleId(free, entity) ==
    IF Len(free) < MAX_FREE_IDS
    THEN IF ~InFreeList(free, entity) THEN Append(free, entity) ELSE free
    ELSE free

\* Store.has_component, on a component map
HasComponent(comps, entity, t) == entity \in DOMAIN DictGet(comps, t)

has_component(entity, t) == HasComponent(components, entity, t)

\* sorted(ids)
RECURSIVE Sorted(_)
Sorted(S) ==
    IF S = {} THEN <<>>
    ELSE LET m == CHOOSE x \in S : \A y \in S : x <= y IN <<m>> \o Sorted(S \ {m})

\* Store.query_entities(*component_types), ts the sequence of requested types
query_entities_any(ts) ==
    IF ts = <<>> THEN <<>>
    ELSE IF \E n \in DOMAIN ts : DOMAIN DictGet(components, ts[n]) = {} THEN <<>>
    ELSE Sorted(UNION {DOMAIN DictGet(components, ts[n]) : n \in DOMAIN ts})

query_entities(ts) ==
    IF ts = <<>> THEN <<>>
    ELSE IF \E n \in DOMAIN ts : DOMAIN DictGet(components, ts[n]) = {} THEN <<>>
    ELSE Sorted({e \in DOMAIN DictGet(components, ts[1]) :
                    \A n \in DOMAIN ts : e \in DOMAIN DictGet(components, ts[n])})

\* Store.query(*component_types): one tuple (eid, comp1, comp2, ...) per ID
\* that query_entities yields
query(ts) ==
    LET ids == query_entities(ts)
    IN  [n \in DOMAIN ids |->
            <<ids[n]>> \o [m \in DOMAIN ts |-> components[ts[m]][ids[n]]]]

\* the component types an entity holds
Held(entity) == {t \in DOMAIN components : entity \in DOMAIN components[t]}

\* Store.add_component on a component map
AddTo_keepFirst(comps, entity, t, v) ==
    IF entity \in DOMAIN DictGet(comps, t) THEN comps
    ELSE DictPut(comps, t, DictPut(DictGet(comps, t), entity, v))

AddTo(comps, entity, t, v) == DictPut(comps, t, DictPut(DictGet(comps, t), entity, v))

\* Store.__init__
StoreInit ==
    /\ next_id = 0
    /\ free_ids = <<>>
    /\ components = EmptyMap
    /\ live = {}
    /\ freed = <<>>
    /\ run = 0
    /\ abandoned = {}
    /\ last = [op |-> "init", id |-> NoId, ret |-> NoId, wasLive |-> FALSE,
               atCap |-> FALSE, had |-> {}]

\* Store.create_entity
create_entity ==
    IF free_ids # <<>>
    THEN LET eid == PopFreeId(free_ids) IN
         /\ free_ids' = AfterPop(free_ids)
         /\ next_id' = next_id
         /\ live' = live \cup {eid}
         /\ freed' = Without(freed, eid)
         /\ last' = [op |-> "create", id |-> NoId, ret |-> eid,
                     wasLive |-> eid \in live, had |-> Held(eid),
                     atCap |-> last.op = "destroy" /\ last.atCap /\ last.wasLive,
                     stripped |-> IF last.op = "destroy" /\ last.id = eid
                                  THEN last.had ELSE {}]
         /\ run' = 0
         /\ UNCHANGED <<components, abandoned>>
    ELSE /\ next_id <= MaxId
         /\ next_id' = next_id + 1
         /\ live' = live \cup {next_id}
         /\ last' = [op |-> "create", id |-> NoId, ret |-> next_id,
                     wasLive |-> next_id \in live, had |-> Held(next_id),
                     atCap |-> last.op = "destroy" /\ last.atCap /\ last.wasLive,
                     stripped |-> IF last.op = "destroy" /\ last.id = next_id
                                  THEN last.had ELSE {}]
         /\ run' = 0
         /\ UNCHANGED <<free_ids, components, freed, abandoned>>

\* Store.destroy_entity(entity), all but the history of abandoned IDs
DestroyIn(entity) ==
    /\ components' = RemoveAll(components, entity)
    /\ free_ids' = RecycleId(free_ids, entity)
    /\ freed' = IF Len(free_ids') > Len(free_ids) THEN Append(freed, entity) ELSE freed
    /\ live' = live \ {entity}
    /\ run' = IF entity \in live THEN (IF run <= MAX_FREE_IDS THEN run + 1 ELSE run) ELSE 0
    /\ last' = [op |-> "destroy", id |-> entity, ret |-> NoId,
                wasLive |-> entity \in live, had |-> Held(entity),
                atCap |-> Len(free_ids) = MAX_FREE_IDS]
    /\ UNCHANGED next_id

\* Store.destroy_entity(entity)
destroy_entity(entity) == DestroyIn(entity) /\ UNCHANGED abandoned

\* Store.destroy_entity(entity), remembering the IDs it is given while the
\* free list is full
destroy_entity_noting(entity) ==
    /\ DestroyIn(entity)
    /\ abandoned' = IF Len(free_ids) = MAX_FREE_IDS THEN abandoned \cup {entity}
                    ELSE abandoned

\* Store.add_component(entity, component), component of type t and value v
add_component(entity, t, v) ==
    /\ components' = AddTo(components, entity, t, v)
    /\ last' = [op |-> "add", id |-> entity, ret |-> NoId,
                wasLive |-> entity \in live, had |-> Held(entity), atCap |-> FALSE,
                type |-> t, value |-> v]
    /\ run' = 0
    /\ UNCHANGED <<next_id, free_ids, live, freed, abandoned>>

\* Store.remove_component(entity, component_type), the map it leaves behind
RemoveFrom(comps, entity, t) ==
    IF HasComponent(comps, entity, t)
    THEN [comps EXCEPT ![t] = DictPop(comps[t], entity)]
    ELSE comps

\* Store.remove_component(entity, component_type), the value it returns
RemoveReturns_always(comps, entity, t) == TRUE

RemoveReturns(comps, entity, t) ==
    IF t \in DOMAIN comps
    THEN (IF entity \in DOMAIN comps[t] THEN TRUE ELSE FALSE)
    ELSE FALSE

\* Store.remove_component(entity, component_type)
remove_component(entity, t) ==
    /\ components' = RemoveFrom(components, entity, t)
    /\ last' = [op |-> "remove", id |-> entity, ret |-> NoId,
                wasLive |-> entity \in live, had |-> Held(entity), atCap |-> FALSE,
                type |-> t, removed |-> RemoveReturns(components, entity, t)]
    /\ run' = 0
    /\ UNCHANGED <<next_id, free_ids, live, freed, abandoned>>

\* ------------------------------------------------------------ runtime bounds
\* World.register is called at most MaxSystems times.
MaxSystems == 4

\* Runtime.step is called at most MaxSteps times.
MaxSteps == 2

\* At most MaxCmds commands are dispatched in a behaviour; they are numbered
\* 1..MaxCmds in dispatch order.
MaxCmds == 2

\* In SpecRuntime the host registers at most MaxRtSystems systems.
MaxRtSystems == 2

Priorities == {0, 1, 5}

RtPriorities == {0, 1}

CmdTypes == {"Move", "Bump"}

HandlerIds == {"h1", "h2"}

NoHandler == "none"

VARIABLES
    systems,      \* World._systems: list of (priority, system)
    queue,        \* CommandDispatcher.queue
    handlers,     \* CommandRouter._handlers: command type -> handler
    steps,        \* Runtime.steps
    pc,           \* where the running step call is: "idle", "systems", "route"
    snapshot,     \* World.step: list(self._systems), the list being iterated
    i,            \* World.step: position in snapshot
    commands,     \* Runtime.step: the batch pop_all returned
    j,            \* CommandRouter.handle_all: position in commands
    stats,        \* CommandRouter.handle_all: stats
    outcome,      \* how the last step call ended: "none", "ok", "raised"
    stepNo,       \* history: number of step calls started
    nextCmd,      \* history: number of the next command to be dispatched
    dispatched,   \* history: every command dispatched so far
    routeLog,     \* history: every CommandRouter.route call, in order: the
                  \* command's number, the step call, the handler invoked (or
                  \* "none"), and how many systems of the step had not run yet
    runLog,       \* history: systems whose update ran in the current/last step
    stepLog       \* history: per step call, its outcome and the handlers bound in it

rtVars == <<systems, queue, handlers, steps, pc, snapshot, i, commands, j, stats,
            outcome, stepNo, nextCmd, dispatched, routeLog, runLog, stepLog>>

VARIABLES
    call,         \* history: the call the host made last on the runtime, the
                  \* router, the dispatcher, the bus, the registry or the
                  \* serializer, with its arguments, its result and its error
    out,          \* history: the commands that left the queue through pop,
                  \* pop_all or process, in the order they left
    subs,         \* EventBus._subs: event type -> list of (token, handler)
    bus_next_id,  \* EventBus._next_id
    emitting,     \* EventBus.emit: the event and list(self._subs.get(...))
    emit_i,       \* EventBus.emit: position in the list being iterated
    invoked,      \* history: the handlers the running/last emit invoked
    resources,    \* ResourceRegistry._resources: type -> resource
    loadedFrom,   \* history: the world a snapshot was taken of, and the
                  \* snapshot, when load_into_world filled the store from it
    refused       \* history: the last CommandRouter.register call that raised
                  \* (its type and handler, the handler bound then, the number
                  \* of route calls made before it), until the type is unregistered

extVars == <<call, out, subs, bus_next_id, emitting, emit_i, invoked, resources, loadedFrom,
             refused>>

busVars == <<subs, bus_next_id, emitting, emit_i, invoked>>

NoCall == [op |-> "none"]

\* EventBus.__init__, ResourceRegistry.__init__, and nothing called yet
ExtInit ==
    /\ call = NoCall
    /\ out = <<>>
    /\ subs = EmptyMap
    /\ bus_next_id = 0
    /\ emitting = [event |-> "none", list |-> <<>>]
    /\ emit_i = 1
    /\ invoked = <<>>
    /\ resources = EmptyMap
    /\ loadedFrom = [done |-> FALSE]
    /\ refused = [type |-> "none"]

\* ------------------------------------------------------------------- World
\* list.sort(key=priority) is stable: x goes behind every entry whose
\* priority is not greater than its own.
InsertByPriority_before(sorted, x) ==
    LET k == Cardinality({n \in DOMAIN sorted : sorted[n].priority < x.priority})
    IN  SubSeq(sorted, 1, k) \o <<x>> \o SubSeq(sorted, k + 1, Len(sorted))

InsertByPriority(sorted, x) ==
    LET k == Cardinality({n \in DOMAIN sorted : sorted[n].priority <= x.priority})
    IN  SubSeq(sorted, 1, k) \o <<x>> \o SubSeq(sorted, k + 1, Len(sorted))

RECURSIVE SortByPriority(_)
SortByPriority(s) ==
    IF s = <<>> THEN <<>>
    ELSE InsertByPriority(SortByPriority(SubSeq(s, 1, Len(s) - 1)), s[Len(s)])

\* World.register(system, priority); upd tells whether the object has an
\* update attribute. The system is identified by its registration number;
\* during is the number of the step call in progress when it was registered,
\* 0 when the host registered it between steps.
register(priority, upd) ==
    /\ pc = "idle"
    /\ systems' = SortByPriority(Append(systems,
                      [priority |-> priority, sys |-> Len(systems) + 1, upd |-> upd,
                       during |-> 0]))
    /\ outcome' = "none"
    /\ UNCHANGED <<queue, handlers, steps, pc, snapshot, i, commands, j, stats,
                   stepNo, nextCmd, dispatched, routeLog, runLog, stepLog>>
    /\ UNCHANGED storeVars
    /\ call' = [op |-> "World.register"]
    /\ UNCHANGED <<out, subs, bus_next_id, emitting, emit_i, invoked, resources, loadedFrom, refused>>

\* --------------------------------------------------------- CommandDispatcher
\* CommandDispatcher.dispatch
Dispatch_front(q, cmd) == <<cmd>> \o q

Dispatch(q, cmd) == Append(q, cmd)

\* CommandDispatcher.pop_all: the queue it leaves behind
PopAllLeaves_keep(q) == q

PopAllLeaves(q) == <<>>

\* ------------------------------------------------------------ CommandRouter
\* CommandRouter.register, the handler map it leaves behind: untouched when
\* cmd_type is already bound
RegisterHandler_overwrite(hs, cmd_type, h) == DictPut(hs, cmd_type, h)

RegisterHandler(hs, cmd_type, h) ==
    IF cmd_type \in DOMAIN hs THEN hs ELSE DictPut(hs, cmd_type, h)

\* CommandRouter.register(cmd_type, handler): ValueError when already bound
router_register(cmd_type, h) ==
    /\ pc = "idle"
    /\ handlers' = RegisterHandler(handlers, cmd_type, h)
    /\ outcome' = "none"
    /\ UNCHANGED <<systems, queue, steps, pc, snapshot, i, commands, j, stats,
                   stepNo, nextCmd, dispatched, routeLog, runLog, stepLog>>
    /\ UNCHANGED storeVars
    /\ call' = [op |-> "register", type |-> cmd_type, h |-> h,
                err |-> IF cmd_type \in DOMAIN handlers THEN "ValueError" ELSE "none"]
    /\ refused' = IF cmd_type \in DOMAIN handlers
                  THEN [type |-> cmd_type, h |-> h, bound |-> handlers[cmd_type],
                        at |-> Len(routeLog)]
                  ELSE refused
    /\ UNCHANGED <<out, subs, bus_next_id, emitting, emit_i, invoked, resources, loadedFrom>>

\* CommandRouter.unregister(cmd_type)
router_unregister(cmd_type) ==
    /\ pc = "idle"
    /\ handlers' = IF cmd_type \in DOMAIN handlers THEN DictPop(handlers, cmd_type)
                   ELSE handlers
    /\ outcome' = "none"
    /\ UNCHANGED <<systems, queue, steps, pc, snapshot, i, commands, j, stats,
                   stepNo, nextCmd, dispatched, routeLog, runLog, stepLog>>
    /\ UNCHANGED storeVars
    /\ call' = [op |-> "unregister", type |-> cmd_type,
                ret |-> cmd_type \in DOMAIN handlers]
    /\ refused' = IF refused.type = cmd_type THEN [type |-> "none"] ELSE refused
    /\ UNCHANGED <<out, subs, bus_next_id, emitting, emit_i, invoked, resources, loadedFrom>>

\* CommandRouter.route: self._handlers.get(type(cmd))
HandlerFor(hs, cmd) == IF cmd.type \in DOMAIN hs THEN hs[cmd.type] ELSE NoHandler

\* ----------------------------------------------------------------- Runtime
RuntimeInit ==
    /\ systems = <<>>
    /\ queue = <<>>
    /\ handlers = EmptyMap
    /\ steps = 0
    /\ pc = "idle"
    /\ snapshot = <<>>
    /\ i = 1
    /\ commands = <<>>
    /\ j = 1
    /\ stats = EmptyMap
    /\ outcome = "none"
    /\ stepNo = 0
    /\ nextCmd = 1
    /\ dispatched = {}
    /\ routeLog = <<>>
    /\ runLog = <<>>
    /\ stepLog = <<>>

\* hive.components.Destroyed, the marker component type
Destroyed == "Destroyed"

\* Runtime.step and World.step make no call on the store of their own: no
\* cleanup of entities carrying Destroyed is built in
StepLeavesStore_sweep ==
    LET marked == {e \in live : HasComponent(components, e, Destroyed)} IN
    /\ components' = [t \in DOMAIN components |->
                         [e \in (DOMAIN components[t]) \ marked |-> components[t][e]]]
    /\ live' = live \ marked
    /\ UNCHANGED <<next_id, free_ids, freed, run, abandoned, last>>

StepLeavesStore ==
    UNCHANGED <<next_id, free_ids, components, live, freed, run, abandoned, last>>

\* Runtime.step is entered: World.step copies the system list
StepBegin ==
    /\ pc = "idle"
    /\ stepNo < MaxSteps
    /\ pc' = "systems"
    /\ snapshot' = systems
    /\ i' = 1
    /\ stepNo' = stepNo + 1
    /\ outcome' = "none"
    /\ runLog' = <<>>
    /\ stepLog' = Append(stepLog, [outcome |-> "running", handlers |-> handlers])
    /\ UNCHANGED <<systems, queue, handlers, steps, commands, j, stats,
                   nextCmd, dispatched, routeLog>>
    /\ StepLeavesStore
    /\ call' = [op |-> "step"]
    /\ UNCHANGED <<out, subs, bus_next_id, emitting, emit_i, invoked, resources, loadedFrom, refused>>

\* the commands a system's update or a handler dispatches: none, or one of
\* type t. A command is numbered (id) and carries its history: who dispatched
\* it (by), at which position of the system list (pos, 0 for a handler), and
\* in which step call (step).
NewCmds(t, by, pos) ==
    IF t = NoHandler \/ nextCmd > MaxCmds THEN <<>>
    ELSE <<[id |-> nextCmd, type |-> t, by |-> by, pos |-> pos, step |-> stepNo]>>

\* a call of step ends with an exception reaching its caller
Raise_caught ==
    /\ pc' = pc
    /\ outcome' = "raised"
    /\ stepLog' = [stepLog EXCEPT ![stepNo].outcome = "raised"]

Raise ==
    /\ pc' = "idle"
    /\ outcome' = "raised"
    /\ stepLog' = [stepLog EXCEPT ![stepNo].outcome = "raised"]

\* World.step, one turn of the loop: the next system's update, if the object
\* has one, runs; it dispatches a command of type t or none, or raises
SystemUpdate(t, raises) ==
    /\ pc = "systems"
    /\ i <= Len(snapshot)
    /\ IF ~snapshot[i].upd
       THEN /\ t = NoHandler /\ ~raises
            /\ i' = i + 1
            /\ UNCHANGED <<pc, outcome, stepLog, queue, nextCmd, dispatched, runLog>>
       ELSE /\ runLog' = Append(runLog, snapshot[i].sys)
            /\ IF raises
               THEN /\ t = NoHandler
                    /\ Raise
                    /\ UNCHANGED <<i, queue, nextCmd, dispatched>>
               ELSE LET cs == NewCmds(t, "system", i) IN
                    /\ queue' = IF cs = <<>> THEN queue ELSE Dispatch(queue, cs[1])
                    /\ nextCmd' = nextCmd + Len(cs)
                    /\ dispatched' = dispatched \cup Range(cs)
                    /\ i' = i + 1
                    /\ UNCHANGED <<pc, outcome, stepLog>>
    /\ UNCHANGED <<systems, handlers, steps, snapshot, commands, j, stats,
                   stepNo, routeLog>>
    /\ UNCHANGED storeVars
    /\ UNCHANGED extVars

\* a system's update, while it runs, destroys an entity that carries the
\* Destroyed marker (a cleanup system supplied by the host)
SystemDestroys(entity) ==
    /\ pc = "systems"
    /\ i <= Len(snapshot)
    /\ snapshot[i].upd
    /\ HasComponent(components, entity, Destroyed)
    /\ destroy_entity(entity)
    /\ call' = [op |-> "update", sys |-> snapshot[i].sys, destroyed |-> entity]
    /\ UNCHANGED rtVars
    /\ UNCHANGED <<out, busVars, resources, loadedFrom, refused>>

\* World.step iterates list(self._systems), a copy made when the step began:
\* a registration made while it runs changes self._systems, not the copy
CopyAfterRegister_alias(copy, registered) == registered

CopyAfterRegister(copy, registered) == copy

\* a system's update, while it runs, registers another system with the World
SystemRegisters(priority, upd) ==
    /\ pc = "systems"
    /\ i <= Len(snapshot)
    /\ snapshot[i].upd
    /\ systems' = SortByPriority(Append(systems,
                      [priority |-> priority, sys |-> Len(systems) + 1, upd |-> upd,
                       during |-> stepNo]))
    /\ snapshot' = CopyAfterRegister(snapshot, systems')
    /\ call' = [op |-> "update", sys |-> snapshot[i].sys, registered |-> Len(systems) + 1]
    /\ UNCHANGED <<queue, handlers, steps, pc, i, commands, j, stats, outcome,
                   stepNo, nextCmd, dispatched, routeLog, runLog, stepLog>>
    /\ UNCHANGED storeVars
    /\ UNCHANGED <<out, busVars, resources, loadedFrom, refused>>

\* World.step has returned once the loop over the snapshot is exhausted
WorldStepReturned_early(pos, snap) == pos > 1 \/ pos > Len(snap)

WorldStepReturned(pos, snap) == pos > Len(snap)

\* Runtime.step, the step counter after a completed step
StepsAfter_twice(n) == n + 2

StepsAfter(n) == n + 1

\* Runtime.step, lines 74-79: pop_all, then handle_all if there are commands
RouteBegin ==
    /\ pc = "systems"
    /\ WorldStepReturned(i, snapshot)
    /\ commands' = queue
    /\ queue' = PopAllLeaves(queue)
    /\ j' = 1
    /\ stats' = EmptyMap
    /\ IF queue # <<>>
       THEN /\ pc' = "route"
            /\ UNCHANGED <<steps, outcome, stepLog>>
       ELSE /\ pc' = "idle"
            /\ steps' = StepsAfter(steps)
            /\ outcome' = "ok"
            /\ stepLog' = [stepLog EXCEPT ![stepNo].outcome = "ok"]
    /\ UNCHANGED <<systems, handlers, snapshot, i, stepNo, nextCmd, dispatched,
                   routeLog, runLog>>
    /\ StepLeavesStore
    /\ UNCHANGED extVars

\* CommandRouter.handle_all, line 83: stats[cmd_type] = stats.get(cmd_type, 0) + 1
CountRouted_reset(st, cmd_type) == DictPut(st, cmd_type, 1)

CountRouted(st, cmd_type) ==
    DictPut(st, cmd_type, IF cmd_type \in DOMAIN st THEN st[cmd_type] + 1 ELSE 1)

\* the component type a handler of commands of type t writes
Writes(t) == IF t = "Move" THEN "A" ELSE "B"

\* CommandRouter.handle_all, one turn of the loop: route(cmd, world). The
\* handler, if one is bound, writes a component carrying the command's number
\* to entity 0, and dispatches a command of type t or raises.
RouteNext(t, raises) ==
    /\ pc = "route"
    /\ j <= Len(commands)
    /\ LET cmd == commands[j]
           h == HandlerFor(handlers, cmd)
       IN  /\ routeLog' = Append(routeLog,
                  [id |-> cmd.id, step |-> stepNo, h |-> h, type |-> cmd.type,
                   pending |-> Len(snapshot) - (i - 1)])
           /\ IF h = NoHandler
              THEN /\ t = NoHandler /\ ~raises
                   /\ j' = j + 1
                   /\ UNCHANGED <<stats, queue, nextCmd, dispatched, pc, outcome, stepLog>>
                   /\ UNCHANGED storeVars
              ELSE IF raises
              THEN /\ t = NoHandler
                   /\ Raise
                   /\ UNCHANGED <<j, stats, queue, nextCmd, dispatched>>
                   /\ UNCHANGED storeVars
              ELSE LET cs == NewCmds(t, "handler", 0) IN
                   /\ add_component(0, Writes(cmd.type), cmd.id)
                   /\ queue' = IF cs = <<>> THEN queue ELSE Dispatch(queue, cs[1])
                   /\ nextCmd' = nextCmd + Len(cs)
                   /\ dispatched' = dispatched \cup Range(cs)
                   /\ stats' = CountRouted(stats, cmd.type)
                   /\ j' = j + 1
                   /\ UNCHANGED <<pc, outcome, stepLog>>
    /\ UNCHANGED <<systems, handlers, steps, snapshot, i, commands, stepNo, runLog>>
    /\ UNCHANGED extVars

\* Runtime.step, line 79: handle_all has returned, the step is counted
StepEnd ==
    /\ pc = "route"
    /\ j > Len(commands)
    /\ pc' = "idle"
    /\ steps' = StepsAfter(steps)
    /\ outcome' = "ok"
    /\ stepLog' = [stepLog EXCEPT ![stepNo].outcome = "ok"]
    /\ UNCHANGED <<systems, queue, handlers, snapshot, i, commands, j, stats,
                   stepNo, nextCmd, dispatched, routeLog, runLog>>
    /\ StepLeavesStore
    /\ UNCHANGED extVars

\* ----------------------------------------------- CommandRouter, used directly
\* At most MaxRouted commands are given to handle_all in a behaviour of
\* SpecRouter; they are numbered in the order they are given.
MaxRouted == 2

\* the batches of n commands numbered from first, of any types
Batches(first, n) ==
    {[m \in 1..n |-> [id |-> first + m - 1, type |-> ts[m], by |-> "host",
                      pos |-> 0, step |-> stepNo]] : ts \in [1..n -> CmdTypes]}

\* CommandRouter.handle_all(commands, world) is called by the host
HandleAllBegin(batch) ==
    /\ pc = "idle"
    /\ pc' = "route"
    /\ commands' = batch
    /\ j' = 1
    /\ stats' = EmptyMap
    /\ nextCmd' = nextCmd + Len(batch)
    /\ outcome' = "none"
    /\ call' = [op |-> "handle_all", state |-> "running", from |-> Len(routeLog)]
    /\ UNCHANGED <<systems, queue, handlers, steps, snapshot, i, stepNo, dispatched,
                   routeLog, runLog, stepLog>>
    /\ UNCHANGED <<out, busVars, resources, loadedFrom, refused, storeVars>>

\* CommandRouter.handle_all returns stats to the host
HandleAllReturn ==
    /\ pc = "route"
    /\ call.op = "handle_all"
    /\ j > Len(commands)
    /\ pc' = "idle"
    /\ outcome' = "ok"
    /\ call' = [op |-> "handle_all", state |-> "returned", from |-> call.from,
                ret |-> stats]
    /\ UNCHANGED <<systems, queue, handlers, steps, snapshot, i, commands, j, stats,
                   stepNo, nextCmd, dispatched, routeLog, runLog, stepLog>>
    /\ UNCHANGED <<out, busVars, resources, loadedFrom, refused, storeVars>>

\* ------------------------------------------- CommandDispatcher, used directly
\* At most MaxDispatched commands are dispatched in a behaviour of
\* SpecDispatcher; they are numbered in dispatch order.
MaxDispatched == 4

\* what a call on the dispatcher leaves alone
notDispatcher == <<systems, handlers, steps, snapshot, i, commands, j, stats,
                   stepNo, routeLog, runLog, stepLog>>

\* the command a dispatch call enqueues
NewCmd(t, by) == [id |-> nextCmd, type |-> t, by |-> by, pos |-> 0, step |-> stepNo]

\* deque.popleft: the item returned, and the queue left behind
PopLeft_newest(q) == q[Len(q)]

PopLeft(q) == q[1]

AfterPopLeft(q) == SubSeq(q, 2, Len(q))

\* CommandDispatcher.process, line 33: while self.queue
ProcessContinues_never(q) == FALSE

ProcessContinues(q) == q # <<>>

\* CommandDispatcher.dispatch(command), called by the host
dispatch(t) ==
    /\ pc = "idle"
    /\ nextCmd <= MaxDispatched
    /\ queue' = Dispatch(queue, NewCmd(t, "host"))
    /\ nextCmd' = nextCmd + 1
    /\ dispatched' = dispatched \cup {NewCmd(t, "host")}
    /\ call' = [op |-> "dispatch", id |-> nextCmd]
    /\ UNCHANGED <<pc, outcome, out, resources, loadedFrom, refused>>
    /\ UNCHANGED <<notDispatcher, busVars, storeVars>>

\* deque.popleft raises IndexError on an empty deque
PopRaises_never(q) == FALSE

PopRaises(q) == q = <<>>

\* CommandDispatcher.pop(): IndexError from popleft on an empty deque
pop ==
    /\ pc = "idle"
    /\ IF queue = <<>>
       THEN /\ call' = [op |-> "pop", ret |-> 0,
                        err |-> IF PopRaises(queue) THEN "IndexError" ELSE "none"]
            /\ UNCHANGED <<queue, out>>
       ELSE /\ call' = [op |-> "pop", ret |-> PopLeft(queue).id, err |-> "none"]
            /\ queue' = AfterPopLeft(queue)
            /\ out' = Append(out, PopLeft(queue).id)
    /\ UNCHANGED <<pc, outcome, nextCmd, dispatched, resources, loadedFrom, refused>>
    /\ UNCHANGED <<notDispatcher, busVars, storeVars>>

\* CommandDispatcher.pop_all()
pop_all ==
    /\ pc = "idle"
    /\ call' = [op |-> "pop_all", ret |-> [n \in DOMAIN queue |-> queue[n].id]]
    /\ queue' = PopAllLeaves(queue)
    /\ out' = out \o [n \in DOMAIN queue |-> queue[n].id]
    /\ UNCHANGED <<pc, outcome, nextCmd, dispatched, resources, loadedFrom, refused>>
    /\ UNCHANGED <<notDispatcher, busVars, storeVars>>

\* CommandDispatcher.process(handler) is entered; the call record keeps the
\* commands pending at that moment and the number of the next command to be
\* dispatched, and collects the commands given to the handler
ProcessBegin ==
    /\ pc = "idle"
    /\ pc' = "process"
    /\ outcome' = "none"
    /\ call' = [op |-> "process", state |-> "running", from |-> nextCmd,
                pending |-> [n \in DOMAIN queue |-> queue[n].id], handled |-> <<>>]
    /\ UNCHANGED <<queue, nextCmd, dispatched, out, resources, loadedFrom, refused>>
    /\ UNCHANGED <<notDispatcher, busVars, storeVars>>

\* CommandDispatcher.process, one turn of the loop: popleft, handler(cmd); the
\* handler dispatches a command of type t or none, or raises
ProcessNext(t, raises) ==
    /\ pc = "process"
    /\ ProcessContinues(queue)
    /\ out' = Append(out, PopLeft(queue).id)
    /\ IF raises
       THEN /\ t = NoHandler
            /\ queue' = AfterPopLeft(queue)
            /\ pc' = "idle"
            /\ outcome' = "raised"
            /\ call' = [call EXCEPT !.state = "raised",
                                    !.handled = Append(@, PopLeft(queue).id)]
            /\ UNCHANGED <<nextCmd, dispatched>>
       ELSE /\ call' = [call EXCEPT !.handled = Append(@, PopLeft(queue).id)]
            /\ IF t = NoHandler \/ nextCmd > MaxDispatched
               THEN /\ queue' = AfterPopLeft(queue)
                    /\ UNCHANGED <<nextCmd, dispatched>>
               ELSE /\ queue' = Dispatch(AfterPopLeft(queue), NewCmd(t, "handler"))
                    /\ nextCmd' = nextCmd + 1
                    /\ dispatched' = dispatched \cup {NewCmd(t, "handler")}
            /\ UNCHANGED <<pc, outcome>>
    /\ UNCHANGED <<resources, loadedFrom, refused>>
    /\ UNCHANGED <<notDispatcher, busVars, storeVars>>

\* CommandDispatcher.process returns: the loop condition is false
ProcessReturn ==
    /\ pc = "process"
    /\ ~ProcessContinues(queue)
    /\ pc' = "idle"
    /\ outcome' = "ok"
    /\ call' = [call EXCEPT !.state = "returned"]
    /\ UNCHANGED <<queue, nextCmd, dispatched, out, resources, loadedFrom, refused>>
    /\ UNCHANGED <<notDispatcher, busVars, storeVars>>

\* ----------------------------------------------------------------- EventBus
\* EventBus.on is called at most MaxSubs times in a behaviour.
MaxSubs == 3

EvTypes == {"E", "F"}

BusHandlers == {"g1", "g2"}

\* the tokens on can return
Tokens == EvTypes \X (0..(MaxSubs - 1))

\* what a call on the bus leaves alone
notBus == <<systems, queue, handlers, steps, snapshot, i, commands, j, stats,
            stepNo, nextCmd, dispatched, routeLog, runLog, stepLog,
            out, resources, loadedFrom, refused>>

\* self._subs.get(event_type, [])
SubsOf(ss, et) == IF et \in DOMAIN ss THEN ss[et] ELSE <<>>

\* list.pop(i)
RemoveAt_first(list, n) == SubSeq(list, 2, Len(list))

RemoveAt(list, n) == SubSeq(list, 1, n - 1) \o SubSeq(list, n + 1, Len(list))

\* EventBus.emit, lines 32-36: the loop goes on after a handler, also when the
\* handler raised an Exception, which is logged
EmitContinues_unlessRaised(raised) == ~raised

EmitContinues(raised) == TRUE

\* EventBus.emit, line 31: the loop runs over list(...), a copy of the
\* subscriber list made when emit was entered, whatever on and off do to the
\* subscriber list (current) meanwhile
ListIterated_live(copy, current) == current

ListIterated(copy, current) == copy

\* the list a running emit iterates, after on or off left the subscribers ss
EmittingAfter(ss) ==
    IF pc = "emit"
    THEN [emitting EXCEPT !.list = ListIterated(emitting.list, SubsOf(ss, emitting.event))]
    ELSE emitting

\* EventBus.on(event_type, handler), called by the host or by a handler
\* during an emit
on(et, h) ==
    /\ pc \in {"idle", "emit"}
    /\ bus_next_id < MaxSubs
    /\ subs' = DictPut(subs, et,
                   Append(SubsOf(subs, et), [token |-> <<et, bus_next_id>>, h |-> h]))
    /\ bus_next_id' = bus_next_id + 1
    /\ call' = [op |-> "on", ret |-> <<et, bus_next_id>>, h |-> h, during |-> pc]
    /\ emitting' = EmittingAfter(subs')
    /\ UNCHANGED <<pc, outcome, emit_i, invoked>>
    /\ UNCHANGED <<notBus, storeVars>>

\* EventBus.off(token), called by the host or by a handler during an emit
off(token) ==
    /\ pc \in {"idle", "emit"}
    /\ LET list == SubsOf(subs, token[1])
           found == {n \in DOMAIN list : list[n].token = token}
       IN  IF found # {}
           THEN LET n == CHOOSE m \in found : \A o \in found : m <= o
                IN  /\ subs' = [subs EXCEPT ![token[1]] = RemoveAt(list, n)]
                    /\ call' = [op |-> "off", token |-> token, ret |-> TRUE, during |-> pc]
           ELSE /\ subs' = subs
                /\ call' = [op |-> "off", token |-> token, ret |-> FALSE, during |-> pc]
    /\ emitting' = EmittingAfter(subs')
    /\ UNCHANGED <<pc, outcome, bus_next_id, emit_i, invoked>>
    /\ UNCHANGED <<notBus, storeVars>>

\* EventBus.emit(event) is entered: the subscriber list of type(event) is copied
EmitBegin(et) ==
    /\ pc = "idle"
    /\ pc' = "emit"
    /\ outcome' = "none"
    /\ emitting' = [event |-> et, list |-> SubsOf(subs, et)]
    /\ emit_i' = 1
    /\ invoked' = <<>>
    /\ call' = [op |-> "emit", event |-> et]
    /\ UNCHANGED <<subs, bus_next_id>>
    /\ UNCHANGED <<notBus, storeVars>>

\* EventBus.emit, one turn of the loop: the next handler of the copy is
\* invoked and returns or raises an Exception
EmitNext(raises) ==
    /\ pc = "emit"
    /\ emit_i <= Len(emitting.list)
    /\ invoked' = Append(invoked, [token |-> emitting.list[emit_i].token,
                                   h |-> emitting.list[emit_i].h, raised |-> raises])
    /\ IF EmitContinues(raises)
       THEN /\ emit_i' = emit_i + 1
            /\ UNCHANGED <<pc, outcome>>
       ELSE /\ pc' = "idle"
            /\ outcome' = "raised"
            /\ UNCHANGED emit_i
    /\ UNCHANGED <<call, subs, bus_next_id, emitting>>
    /\ UNCHANGED <<notBus, storeVars>>

\* EventBus.emit returns: the loop over the copy is exhausted
EmitReturn ==
    /\ pc = "emit"
    /\ emit_i > Len(emitting.list)
    /\ pc' = "idle"
    /\ outcome' = "ok"
    /\ UNCHANGED <<call, subs, bus_next_id, emitting, emit_i, invoked>>
    /\ UNCHANGED <<notBus, storeVars>>

\* ------------------------------------------------- resources and serializer
\* In SpecSerialize the counter issues the IDs of SerIds before the snapshot
\* is taken, and components are attached to these IDs.
SerIds == {0, 1}

\* component types: A is a dataclass, X a class that is neither a dataclass
\* nor registered with register_serializer
SerTypes == {"A", "X"}

\* resource types: Cfg is a dataclass, Buf like X, Raw has no __dict__
ResTypes == {"Cfg", "Buf", "Raw"}

\* _serialize_component succeeds: dataclass, registered, or has a __dict__
Serializable(t) == t # "Raw"

\* _deserialize_component succeeds: registered, or a dataclass found by name
Reconstructable(t) == t \in {"A", "B", "Cfg"}

\* str(eid) and int(sid)
StrOf(eid) == <<"str", eid>>

IntOf(sid) == sid[2]

\* _serialize_component(obj), obj of type t and value v, when it does not
\* raise TypeError (Serializable(t))
SerializeComponent(t, v) == [tname |-> t, data |-> v]

\* _deserialize_component(obj) raises TypeError
DeserializeRaises(obj) == ~Reconstructable(obj.tname)

\* _deserialize_component(obj), when it does not raise
DeserializeComponent(obj) == [type |-> obj.tname, value |-> obj.data]

\* snapshot(world)
Snapshot(nid, comps, res) ==
    [next_id |-> nid,
     components |-> [t \in DOMAIN comps |->
                       [sid \in {StrOf(e) : e \in DOMAIN comps[t]} |->
                           SerializeComponent(t, comps[t][IntOf(sid)])]],
     resources |-> [r \in {x \in DOMAIN res : Serializable(x)} |->
                       SerializeComponent(r, res[r])]]

\* load_into_world, line 79
LoadedNextId_kept(snap, current) == current

LoadedNextId(snap, current) == snap.next_id

\* load_into_world: the component types of the snapshot whose first entry
\* makes _deserialize_component raise, and the ones that load
FailingTypes(snap) ==
    {t \in DOMAIN snap.components :
        \E sid \in DOMAIN snap.components[t] :
            DeserializeRaises(snap.components[t][sid])}

LoadingTypes(snap) ==
    {t \in DOMAIN snap.components :
        /\ DOMAIN snap.components[t] # {}
        /\ t \notin FailingTypes(snap)}

\* load_into_world, lines 82-86: the component maps after the types in before
\* have been loaded
LoadComponents(snap, before) ==
    [t \in before |->
        [e \in {IntOf(sid) : sid \in DOMAIN snap.components[t]} |->
            DeserializeComponent(snap.components[t][StrOf(e)]).value]]

\* load_into_world, lines 88-93: a resource whose type is not reconstructable
\* is skipped, TypeError being caught
ResourceError_raised(sres) ==
    IF \E r \in DOMAIN sres : DeserializeRaises(sres[r])
    THEN "TypeError" ELSE "none"

ResourceError(sres) == "none"

LoadResources(sres) ==
    [r \in {x \in DOMAIN sres : ~DeserializeRaises(sres[x])} |->
        DeserializeComponent(sres[r]).value]

\* ResourceRegistry.register, line 14: self._data[key] = resource
RegisterResource_keepFirst(res, rt, v) ==
    IF rt \in DOMAIN res THEN res ELSE DictPut(res, rt, v)

RegisterResource(res, rt, v) == DictPut(res, rt, v)

\* ResourceRegistry.get raises KeyError
GetRaises(res, rt) == rt \notin DOMAIN res

\* ResourceRegistry.get_or: self._data.get(resource_type, default)
GetOr_default(res, rt, d) == d

GetOr(res, rt, d) == IF rt \in DOMAIN res THEN res[rt] ELSE d

\* what ResourceRegistry returns when it returns nothing
NoResource == 0

\* ResourceRegistry.register(resource), resource of type rt and value v
res_register(rt, v) ==
    /\ pc = "idle"
    /\ resources' = RegisterResource(resources, rt, v)
    /\ call' = [op |-> "resources.register", type |-> rt, value |-> v]
    /\ UNCHANGED <<out, busVars, loadedFrom, refused, rtVars, storeVars>>

\* ResourceRegistry.get(resource_type)
res_get(rt) ==
    /\ pc = "idle"
    /\ call' = IF GetRaises(resources, rt)
               THEN [op |-> "resources.get", type |-> rt, ret |-> NoResource,
                     err |-> "KeyError"]
               ELSE [op |-> "resources.get", type |-> rt, ret |-> resources[rt],
                     err |-> "none"]
    /\ UNCHANGED <<resources, out, busVars, loadedFrom, refused, rtVars, storeVars>>

\* ResourceRegistry.get_or(resource_type, default)
res_get_or(rt, d) ==
    /\ pc = "idle"
    /\ call' = [op |-> "resources.get_or", type |-> rt, default |-> d,
                ret |-> GetOr(resources, rt, d), err |-> "none"]
    /\ UNCHANGED <<resources, out, busVars, loadedFrom, refused, rtVars, storeVars>>

\* ResourceRegistry.has(resource_type)
res_has(rt) ==
    /\ pc = "idle"
    /\ call' = [op |-> "resources.has", type |-> rt, ret |-> rt \in DOMAIN resources]
    /\ UNCHANGED <<resources, out, busVars, loadedFrom, refused, rtVars, storeVars>>

\* load_into_world(snapshot(world), World()): from here on the store and the
\* registry are those of the fresh world. The types in before are the ones the
\* loop over the snapshot meets before the first one that fails (all loading
\* types when none fails); a dict is iterated in insertion order.
load_into_fresh_world(before) ==
    LET snap == Snapshot(next_id, components, resources)
        failing == FailingTypes(snap)
        err == IF failing # {} THEN "TypeError" ELSE ResourceError(snap.resources)
    IN  /\ pc = "idle"
        /\ ~loadedFrom.done
        /\ before \subseteq LoadingTypes(snap)
        /\ failing = {} => before = LoadingTypes(snap)
        /\ next_id' = LoadedNextId(snap, 0)
        /\ free_ids' = <<>>
        /\ components' = LoadComponents(snap, before)
        /\ resources' = IF err = "none" THEN LoadResources(snap.resources) ELSE EmptyMap
        /\ live' = {}
        /\ freed' = <<>>
        /\ run' = 0
        /\ abandoned' = {}
        /\ last' = [op |-> "load", id |-> NoId, ret |-> NoId, wasLive |-> FALSE,
                    atCap |-> FALSE, had |-> {}]
        /\ call' = [op |-> "load_into_world", err |-> err]
        /\ loadedFrom' = [done |-> TRUE, next_id |-> next_id, free_ids |-> free_ids,
                          components |-> components, resources |-> resources,
                          snap |-> snap, err |-> err]
        /\ UNCHANGED <<out, busVars, refused, rtVars>>

\* ---------------------------------------------------------- specifications
CreateEntity == create_entity /\ UNCHANGED <<rtVars, extVars>>

DestroyEntity == \E e \in Ids : destroy_entity(e) /\ UNCHANGED <<rtVars, extVars>>

AddComponent ==
    \E e \in CompIds, t \in Types, v \in Values : add_component(e, t, v) /\ UNCHANGED <<rtVars, extVars>>

vars == <<storeVars, rtVars, extVars>>

Init == StoreInit /\ RuntimeInit /\ ExtInit

Next == CreateEntity \/ DestroyEntity \/ AddComponent

\* the Store, driven by a host
Spec == Init /\ [][Next]_vars

\* the Store's IDs, driven by a host that creates and destroys
AbandonDestroy ==
    \E e \in Ids : destroy_entity_noting(e) /\ UNCHANGED <<rtVars, extVars>>

NextAbandon == CreateEntity \/ AbandonDestroy

SpecAbandon == Init /\ [][NextAbandon]_vars

\* the Store, driven by a host that destroys live entities only
DestroyLive == \E e \in live : destroy_entity(e) /\ UNCHANGED <<rtVars, extVars>>

NextLiveDestroy == CreateEntity \/ DestroyLive \/ AddComponent

SpecLiveDestroy == Init /\ [][NextLiveDestroy]_vars

\* the Store, driven by a host that destroys live entities only and attaches
\* components to live entities only
AddLive ==
    \E e \in live, t \in Types, v \in Values :
        add_component(e, t, v) /\ UNCHANGED <<rtVars, extVars>>

NextLive == CreateEntity \/ DestroyLive \/ AddLive

SpecLive == Init /\ [][NextLive]_vars

\* the component maps of the Store, driven by a host that attaches components
\* of two values to the IDs 0..MaxQId and removes them again
MaxQId == 2

QIds == 0..MaxQId

QValues == {1, 2}

QueryAdd ==
    \E e \in QIds, t \in Types, v \in QValues :
        add_component(e, t, v) /\ UNCHANGED <<rtVars, extVars>>

QueryRemove ==
    \E e \in QIds, t \in Types : remove_component(e, t) /\ UNCHANGED <<rtVars, extVars>>

NextQuery == QueryAdd \/ QueryRemove

SpecQuery == Init /\ [][NextQuery]_vars

\* In SpecRuntime the host sets the runtime up (systems, handlers) before it
\* calls step for the first time.
Register ==
    \E p \in RtPriorities :
        stepNo = 0 /\ Len(systems) < MaxRtSystems /\ register(p, TRUE)

RouterRegister ==
    \E t \in CmdTypes, h \in HandlerIds :
        stepNo = 0 /\ t \notin DOMAIN handlers /\ router_register(t, h)

RouterUnregister ==
    \E t \in CmdTypes : stepNo = 0 /\ t \in DOMAIN handlers /\ router_unregister(t)

RunSystem == \E t \in CmdTypes \cup {NoHandler}, r \in BOOLEAN : SystemUpdate(t, r)

RouteCommand == \E t \in CmdTypes \cup {NoHandler}, r \in BOOLEAN : RouteNext(t, r)

NextRuntime ==
    \/ Register
    \/ RouterRegister
    \/ RouterUnregister
    \/ StepBegin
    \/ RunSystem
    \/ RouteBegin
    \/ RouteCommand
    \/ StepEnd

\* the Runtime with a store: before the first step the host creates entities
\* and marks some of them Destroyed; systems dispatch Move or nothing and may
\* destroy marked entities, handlers write their component
MaxCleanupIds == 2

CleanupCreate ==
    /\ pc = "idle" /\ stepNo = 0
    /\ next_id < MaxCleanupIds
    /\ create_entity
    /\ UNCHANGED <<rtVars, extVars>>

CleanupMark ==
    \E e \in live :
        /\ pc = "idle" /\ stepNo = 0
        /\ add_component(e, Destroyed, 1)
        /\ UNCHANGED <<rtVars, extVars>>

CleanupSweep == \E e \in live : SystemDestroys(e)

CleanupRunSystem == \E t \in {"Move", NoHandler} : SystemUpdate(t, FALSE)

CleanupRoute == RouteNext(NoHandler, FALSE)

NextCleanup ==
    \/ Register
    \/ RouterRegister
    \/ CleanupCreate
    \/ CleanupMark
    \/ StepBegin
    \/ CleanupSweep
    \/ CleanupRunSystem
    \/ RouteBegin
    \/ CleanupRoute
    \/ StepEnd

SpecCleanup == Init /\ [][NextCleanup]_vars

\* the Runtime with up to MaxFailSystems systems of one priority, so that two
\* systems can dispatch before a third raises
MaxFailSystems == 3

FailRegister == stepNo = 0 /\ Len(systems) < MaxFailSystems /\ register(0, TRUE)

NextFailures ==
    \/ FailRegister
    \/ RouterRegister
    \/ StepBegin
    \/ RunSystem
    \/ RouteBegin
    \/ RouteCommand
    \/ StepEnd

SpecFailures == Init /\ [][NextFailures]_vars

\* the Runtime, driven by a host
SpecRuntime == Init /\ [][NextRuntime]_vars

\* World.register and the systems phase of a step: systems of any priority,
\* with or without an update attribute, registered at any time between steps,
\* none of which dispatches a command
WorldRegister ==
    \E p \in Priorities, u \in BOOLEAN : Len(systems) < MaxSystems /\ register(p, u)

WorldRunSystem == \E r \in BOOLEAN : SystemUpdate(NoHandler, r)

NextWorld == WorldRegister \/ StepBegin \/ WorldRunSystem \/ RouteBegin

SpecWorld == Init /\ [][NextWorld]_vars

\* the World with systems that register further systems while a step runs;
\* World.register is called at most MaxLateSystems times, by the host between
\* steps or by a system
MaxLateSystems == 3

LateHostRegister ==
    \E p \in RtPriorities : Len(systems) < MaxLateSystems /\ register(p, TRUE)

LateRegister ==
    \E p \in RtPriorities, u \in BOOLEAN :
        Len(systems) < MaxLateSystems /\ SystemRegisters(p, u)

NextLate == LateHostRegister \/ StepBegin \/ LateRegister \/ WorldRunSystem \/ RouteBegin

SpecLate == Init /\ [][NextLate]_vars

\* the CommandRouter, driven by a host that registers and unregisters handlers
\* (bound or not) and gives batches of commands to handle_all; the handlers
\* write to the store or raise
RouterRegisterAny == \E t \in CmdTypes, h \in HandlerIds : router_register(t, h)

RouterUnregisterAny == \E t \in CmdTypes : router_unregister(t)

RouterHandleAll ==
    \E n \in 0..MaxRouted :
        /\ nextCmd + n <= MaxRouted + 1
        /\ \E batch \in Batches(nextCmd, n) : HandleAllBegin(batch)

RouterRoute == \E r \in BOOLEAN : RouteNext(NoHandler, r)

NextRouter ==
    \/ RouterRegisterAny
    \/ RouterUnregisterAny
    \/ RouterHandleAll
    \/ RouterRoute
    \/ HandleAllReturn

SpecRouter == Init /\ [][NextRouter]_vars

\* the EventBus, driven by a host that subscribes, unsubscribes and emits,
\* with handlers that return or raise
BusOn == \E et \in EvTypes, h \in BusHandlers : pc = "idle" /\ on(et, h)

BusOff == \E token \in Tokens : pc = "idle" /\ off(token)

BusEmit == \E et \in EvTypes : EmitBegin(et)

BusInvoke == \E r \in BOOLEAN : EmitNext(r)

NextBus == BusOn \/ BusOff \/ BusEmit \/ BusInvoke \/ EmitReturn

SpecBus == Init /\ [][NextBus]_vars

\* the EventBus with handlers that subscribe and unsubscribe while an emit
\* invokes them
HandlerOn ==
    \E et \in EvTypes, h \in BusHandlers :
        pc = "emit" /\ emit_i <= Len(emitting.list) /\ on(et, h)

HandlerOff ==
    \E token \in Tokens : pc = "emit" /\ emit_i <= Len(emitting.list) /\ off(token)

NextReentrant ==
    BusOn \/ HandlerOn \/ HandlerOff \/ BusEmit \/ BusInvoke \/ EmitReturn

SpecReentrant == Init /\ [][NextReentrant]_vars

\* a world filled by its host (entities, components of both kinds, resources
\* of all kinds), then saved and loaded into a fresh world in which entities
\* are created and destroyed
SerCreate ==
    /\ next_id \in (IF loadedFrom.done THEN SerIds \cup {Cardinality(SerIds)} ELSE SerIds)
    /\ create_entity /\ UNCHANGED <<rtVars, extVars>>

SerDestroy == \E e \in SerIds : destroy_entity(e) /\ UNCHANGED <<rtVars, extVars>>

SerAdd ==
    \E e \in SerIds, t \in SerTypes, v \in Values :
        ~loadedFrom.done /\ add_component(e, t, v) /\ UNCHANGED <<rtVars, extVars>>

SerRegister == \E rt \in ResTypes, v \in Values : ~loadedFrom.done /\ res_register(rt, v)

SerLoad == \E before \in SUBSET SerTypes : load_into_fresh_world(before)

NextSerialize ==
    \/ SerCreate
    \/ SerDestroy
    \/ SerAdd
    \/ SerRegister
    \/ SerLoad

SpecSerialize == Init /\ [][NextSerialize]_vars

\* the ResourceRegistry, driven by a host that registers resources of two
\* values and looks them up, with a default that is no resource value
ResValues == {1, 2}

ResDefault == 9

ResRegister == \E rt \in ResTypes, v \in ResValues : res_register(rt, v)

ResGet == \E rt \in ResTypes : res_get(rt)

ResGetOr == \E rt \in ResTypes : res_get_or(rt, ResDefault)

ResHas == \E rt \in ResTypes : res_has(rt)

NextResources == ResRegister \/ ResGet \/ ResGetOr \/ ResHas

SpecResources == Init /\ [][NextResources]_vars

\* the CommandDispatcher, driven by a host that dispatches, pops and processes
\* with a handler that may dispatch
DispatcherDispatch == dispatch("Move")

DispatcherProcess == \E t \in {"Move", NoHandler}, r \in BOOLEAN : ProcessNext(t, r)

NextDispatcher ==
    \/ DispatcherDispatch
    \/ pop
    \/ pop_all
    \/ ProcessBegin
    \/ DispatcherProcess
    \/ ProcessReturn

SpecDispatcher == Init /\ [][NextDispatcher]_vars

\* ------------------------------------------------------- claims: the Store
\* every sequence of at most two component types a query may name
TypeSeqs == {<<>>} \cup {<<t>> : t \in Types} \cup {<<t, u>> : t \in Types, u \in Types}

\* C1: create_entity never returns an ID that is live at that moment, whatever
\* IDs destroy_entity was given before (also never-created ones).
C1_CreateNeverReturnsLive == last.op = "create" => ~last.wasLive

\* C11: in every Store state and for all component types A and B,
\* query_entities(A, B) is the ascending intersection of query_entities(A)
\* and query_entities(B), which are the holders of A and of B; a query with no
\* type, or with a type that has no holder (never used, or used and emptied),
\* is empty; and query(A, B) has, in the same order, one tuple
\* (id, A-component, B-component) per ID of query_entities(A, B).
C11_QueryIsSortedIntersection ==
    /\ query_entities(<<>>) = <<>>
    /\ query(<<>>) = <<>>
    /\ \A a \in Types, b \in Types :
        LET qa == query_entities(<<a>>)
            qb == query_entities(<<b>>)
            qab == query_entities(<<a, b>>)
            tab == query(<<a, b>>)
        IN  /\ Range(qa) = {e \in QIds : has_component(e, a)}
            /\ Range(qab) = Range(qa) \cap Range(qb)
            /\ Len(qab) = Cardinality(Range(qab))
            /\ \A m \in DOMAIN qab, n \in DOMAIN qab : m < n => qab[m] < qab[n]
            /\ (qa = <<>> \/ qb = <<>>) => (qab = <<>> /\ tab = <<>>)
            /\ Len(tab) = Len(qab)
            /\ \A n \in DOMAIN qab :
                   tab[n] = <<qab[n], components[a][qab[n]], components[b][qab[n]]>>

\* C11 witness: two entities hold both types, with different values, a third
\* one holds only one of them.
C11_Witness ==
    /\ query_entities(<<"A", "B">>) = <<0, 2>>
    /\ query_entities(<<"A">>) = <<0, 1, 2>>
    /\ query(<<"B", "A">>) = << <<0, 1, 2>>, <<2, 2, 1>> >>

\* C6: right after destroy_entity(E), E holds no component of any type and no
\* query returns E; and an entity that holds no component keeps holding none
\* over every call that is not an add_component on it.
C6_DestroyRemovesAllComponents ==
    /\ [](last.op = "destroy" =>
            /\ \A t \in Types : ~has_component(last.id, t)
            /\ \A ts \in TypeSeqs : last.id \notin Range(query_entities(ts)))
    /\ [][\A e \in Ids :
            (/\ \A t \in Types : ~HasComponent(components, e, t)
             /\ ~(last'.op = "add" /\ last'.id = e))
            => \A t \in Types : ~HasComponent(components', e, t)]_vars

\* C6 witness: an entity holding components of both types has been destroyed.
C6_Witness == last.op = "destroy" /\ last.had = Types

\* C7: destroy_entity on an ID that is not live (already destroyed or never
\* created) leaves the component maps, the free list and the counter unchanged.
C7_DestroyDeadIsNoOp ==
    [][(last'.op = "destroy" /\ ~last'.wasLive)
        => UNCHANGED <<components, free_ids, next_id>>]_vars

\* C8: create_entity returns the most recently freed ID, takes it off the free
\* list and leaves the counter alone when the free list is non-empty;
\* otherwise it returns the counter and increments it by one.
C8_CreateRecyclesOrCounts ==
    [][last'.op = "create" =>
        IF free_ids # <<>>
        THEN /\ last'.ret = freed[Len(freed)]
             /\ Len(free_ids') = Len(free_ids) - 1
             /\ Range(free_ids') = Range(free_ids) \ {last'.ret}
             /\ next_id' = next_id
        ELSE /\ last'.ret = next_id
             /\ next_id' = next_id + 1
             /\ free_ids' = free_ids]_vars

\* C8 witness: 0, 1, 2 created, 1 destroyed, and the next creation returned 1.
C8_Witness ==
    /\ last.op = "create" /\ last.ret = 1
    /\ next_id = 3 /\ live = {0, 1, 2} /\ free_ids = <<>>

\* C9: the free list never holds more than MAX_FREE_IDS entries; a
\* destroy_entity made while it is full removes the entity's components and
\* leaves the free list unchanged; after more than MAX_FREE_IDS destroys of
\* live entities in a row it holds exactly MAX_FREE_IDS entries.
C9_FreeListCapped ==
    /\ [](/\ Len(free_ids) <= MAX_FREE_IDS
          /\ run > MAX_FREE_IDS => Len(free_ids) = MAX_FREE_IDS)
    /\ [][(last'.op = "destroy" /\ last'.atCap) =>
            /\ free_ids' = free_ids
            /\ \A t \in Types : ~HasComponent(components', last'.id, t)]_vars

\* C9 witness: more than MAX_FREE_IDS live entities were destroyed in a row,
\* the last of them, which held a component, while the list was full.
C9_Witness ==
    run > MAX_FREE_IDS /\ last.op = "destroy" /\ last.atCap /\ last.had # {}

\* C10 as stated: after a destroy_entity made while the free list is full, the
\* next create_entity returns the counter's value, a fresh ID.
C10_FreshAfterCap ==
    [][(last'.op = "create" /\ last'.atCap)
        => (last'.ret = next_id /\ next_id' = next_id + 1)]_vars

\* C10 amended: the ID of a live entity destroyed while the free list is full
\* is not put on the free list, and the next create_entity returns a recycled
\* ID, the most recently freed one, never the abandoned one, and leaves the
\* counter unchanged.
C10_RecycledAfterCap ==
    [][(last'.op = "create" /\ last'.atCap) =>
        /\ last.id \notin Range(free_ids)
        /\ last'.ret # last.id
        /\ last'.ret = freed[Len(freed)]
        /\ next_id' = next_id]_vars

\* C10 witness: a create_entity right after a live entity was destroyed while
\* the free list was full.
C10_Witness == last.op = "create" /\ last.atCap

\* ----------------------------------------------------- claims: the Runtime
\* the route calls made for command c
RoutesOf(c) == {k \in DOMAIN routeLog : routeLog[k].id = c.id}

\* every component value in the store
Stored == {components[t][e] : <<t, e>> \in
              {<<t, e>> \in (DOMAIN components) \X Ids : e \in DOMAIN components[t]}}

\* C33: when destroy_entity is only called with live IDs, every ID on the
\* free list is below the counter and is not live, and no create_entity
\* returns an ID that was live.
C33_FreeIdsDeadAndIssued ==
    /\ \A n \in DOMAIN free_ids : free_ids[n] < next_id /\ free_ids[n] \notin live
    /\ last.op = "create" => ~last.wasLive

\* C33 witness: 0, 1, 2 created, 0 and 1 destroyed, and a create_entity
\* returned 1 while 0 stayed on the free list.
C33_Witness ==
    /\ last.op = "create" /\ last.ret = 1
    /\ free_ids = <<0>> /\ live = {1, 2} /\ next_id = 3

\* C34: when add_component and destroy_entity are only called with live IDs,
\* the ID a create_entity returns, recycled or not, holds no component of any
\* type when it is returned.
C34_CreatedIdIsBare ==
    last.op = "create" =>
        /\ last.had = {}
        /\ \A t \in Types : ~has_component(last.ret, t)

\* C34 witness: a create_entity returned a recycled ID that held components of
\* both types when the preceding destroy_entity freed it.
C34_Witness ==
    /\ last.op = "create" /\ last.ret < next_id - 1
    /\ last.stripped = {"A", "B"}

\* C35: under any sequence of create_entity and destroy_entity calls with
\* any IDs, the free list holds no ID twice: a destroy_entity of the ID just
\* destroyed leaves the free list as it is, and a create_entity that takes an
\* ID from the free list leaves a free list without that ID.
C35_FreeListHasNoDuplicates ==
    /\ [](\A m, n \in DOMAIN free_ids : free_ids[m] = free_ids[n] => m = n)
    /\ [][(last.op = "destroy" /\ last'.op = "destroy" /\ last'.id = last.id) =>
            free_ids' = free_ids]_vars
    /\ [][(last'.op = "create" /\ free_ids # <<>>) =>
            ~InFreeList(free_ids', last'.ret)]_vars

\* C35 witness: 0 and 1 created, 1 destroyed, and the dead 1 destroyed again
\* with room on the free list, which holds 1 once.
C35_Witness ==
    /\ last.op = "destroy" /\ last.id = 1 /\ ~last.wasLive /\ ~last.atCap
    /\ free_ids = <<1>> /\ next_id = 2 /\ live = {0}

\* C28: no create_entity returns an ID that was passed to destroy_entity
\* while the free list was full.
C28_AbandonedNeverReturned == last.op = "create" => last.ret \notin abandoned

\* C2: no command is routed while a system of the step has still to run, and
\* while the systems of a step run no command dispatched in that step has been
\* routed or has written to the store.
C2_RoutingAfterAllSystems ==
    /\ \A k \in DOMAIN routeLog : routeLog[k].pending = 0
    /\ pc = "systems" =>
          \A c \in dispatched : c.step = stepNo =>
              RoutesOf(c) = {} /\ c.id \notin Stored

\* C2 witness: the second system of a step has run after the first one
\* dispatched a command whose type has a handler.
C2_Witness ==
    /\ pc = "systems" /\ Len(runLog) = 2
    /\ \E c \in dispatched :
          c.step = stepNo /\ c.pos = 1 /\ c.type \in DOMAIN handlers

\* C3: when step returns, every command dispatched during it, by a system or
\* by a handler, has been routed, and the dispatcher queue is empty.
C3_StepDrainsQueue ==
    outcome = "ok" =>
        /\ queue = <<>>
        /\ \A c \in dispatched : c.step = stepNo => RoutesOf(c) # {}

\* C4: a command dispatched by a system in a step that ended without an
\* exception was routed exactly once, in that step, to the handler bound to
\* its type in that step, or to none if none was bound.
C4_SystemCommandRoutedOnce ==
    \A c \in dispatched :
        (c.by = "system" /\ stepLog[c.step].outcome = "ok") =>
            /\ Cardinality(RoutesOf(c)) = 1
            /\ \A k \in RoutesOf(c) :
                  /\ routeLog[k].step = c.step
                  /\ routeLog[k].h =
                        IF c.type \in DOMAIN stepLog[c.step].handlers
                        THEN stepLog[c.step].handlers[c.type] ELSE NoHandler

\* C4 witness: a second step has ended after a first one in which a system
\* dispatched a command to a bound handler and another to no handler.
C4_Witness ==
    /\ stepNo = 2 /\ outcome = "ok" /\ stepLog[1].outcome = "ok"
    /\ \E c, d \in dispatched :
          /\ c.step = 1 /\ c.by = "system" /\ c.type \in DOMAIN stepLog[1].handlers
          /\ d.step = 1 /\ d.by = "system" /\ d.type \notin DOMAIN stepLog[1].handlers

\* the priority a system was registered with
PriorityOf(sys) == (CHOOSE r \in Range(systems) : r.sys = sys).priority

\* C5: a step that ended without an exception ran update exactly once on
\* every registered system that has one, by ascending priority and, among
\* equal priorities, in registration order.
C5_SystemsRunInStableOrder ==
    outcome = "ok" =>
        /\ Range(runLog) = {r.sys : r \in {q \in Range(systems) : q.upd}}
        /\ Len(runLog) = Cardinality(Range(runLog))
        /\ \A a, b \in DOMAIN runLog : a < b =>
              \/ PriorityOf(runLog[a]) < PriorityOf(runLog[b])
              \/ /\ PriorityOf(runLog[a]) = PriorityOf(runLog[b])
                 /\ runLog[a] < runLog[b]

\* C5 witness: systems registered with priorities 5, 1, 5, 0 ran as the
\* fourth, the second, the first, the third.
C5_Witness ==
    /\ outcome = "ok"
    /\ Len(systems) = 4
    /\ \A r \in Range(systems) :
          r.upd /\ r.priority = <<5, 1, 5, 0>>[r.sys]
    /\ runLog = <<4, 2, 1, 3>>


\* the systems registered by a system's update while a step was running
Late == {r \in Range(systems) : r.during > 0}

\* the number of times system sys has been invoked in the current step
TimesRun(sys) == Cardinality({n \in DOMAIN runLog : runLog[n] = sys})

\* r stands at position n of the list being iterated, behind every system of
\* lower priority or of the same priority and registered earlier, and before
\* all others
AtSortedPosition(r, n) ==
    /\ snapshot[n] = r
    /\ \A m \in DOMAIN snapshot :
          /\ m < n => \/ snapshot[m].priority < r.priority
                      \/ snapshot[m].priority = r.priority /\ snapshot[m].sys < r.sys
          /\ m > n => \/ snapshot[m].priority > r.priority
                      \/ snapshot[m].priority = r.priority /\ snapshot[m].sys > r.sys

\* C31: a system registered by a system's update while a step runs is not in
\* the list that step iterates and is not invoked in it, whatever its
\* priority; every later step iterates a list that holds it once, at its
\* sorted position, and invokes it once when the loop passes that position.
C31_LateSystemRunsFromNextStep ==
    \A r \in Late :
        /\ r.during = stepNo => (r \notin Range(snapshot) /\ TimesRun(r.sys) = 0)
        /\ r.during < stepNo =>
              \E n \in DOMAIN snapshot :
                  /\ AtSortedPosition(r, n)
                  /\ TimesRun(r.sys) =
                        IF r.upd /\ (i > n \/ (i = n /\ stepLog[stepNo].outcome = "raised"))
                        THEN 1 ELSE 0
                  /\ (stepLog[stepNo].outcome = "ok" /\ r.upd) => TimesRun(r.sys) = 1

\* C31 witness: the second step has returned; its list of three systems held
\* at its head the system of priority 0 that the first system, of priority
\* 1, registered during the first step, and it was invoked first.
C31_Witness ==
    /\ stepNo = 2 /\ pc = "idle" /\ outcome = "ok"
    /\ stepLog[1].outcome = "ok"
    /\ \E r \in Late :
          /\ r.during = 1 /\ r.upd /\ r.priority = 0 /\ r.sys = 3
          /\ snapshot[1] = r
    /\ \A n \in 2..3 : snapshot[n].during = 0 /\ snapshot[n].priority = 1 /\ snapshot[n].upd
    /\ runLog = <<3, 1, 2>>

\* the tokens subscribed to event type et
TokensOf(ss, et) == {SubsOf(ss, et)[n].token : n \in DOMAIN SubsOf(ss, et)}

\* C32: emit iterates the subscriber list of the event's type as it was when
\* emit was called: on and off called while it runs change the subscriber
\* list but neither the list iterated nor what has been invoked; the
\* handlers invoked are those of that list, in order, all of them when emit
\* returns, so one unsubscribed meanwhile is still invoked and one subscribed
\* meanwhile is not, while the next emit takes the list as it then is.
C32_EmitIteratesSnapshot ==
    /\ [][(pc = "idle" /\ pc' = "emit") =>
            emitting'.list = SubsOf(subs, emitting'.event)]_vars
    /\ [][(pc = "emit" /\ subs' # subs) =>
            (emitting' = emitting /\ invoked' = invoked /\ emit_i' = emit_i)]_vars
    /\ [][(pc = "emit" /\ invoked' # invoked) =>
            /\ emitting' = emitting
            /\ invoked' = Append(invoked, [token |-> emitting.list[emit_i].token,
                                            h |-> emitting.list[emit_i].h,
                                            raised |-> invoked'[Len(invoked')].raised])]_vars
    /\ []((call.op # "none" /\ pc = "idle" /\ outcome = "ok") =>
            /\ Len(invoked) = Len(emitting.list)
            /\ \A n \in DOMAIN invoked : invoked[n].token = emitting.list[n].token)

\* C32 witness: an emit of E has returned during which the first handler
\* subscribed a third handler to E and then unsubscribed the second; the
\* second was invoked, the third was not.
C32_Witness ==
    /\ pc = "idle" /\ outcome = "ok" /\ emitting.event = "E"
    /\ call.op = "off" /\ call.during = "emit" /\ call.ret /\ call.token = <<"E", 1>>
    /\ Len(invoked) = 2 /\ invoked[2].token = <<"E", 1>>
    /\ TokensOf(subs, "E") = {<<"E", 0>>, <<"E", 2>>}

\* ------------------------------------------- claims: the CommandDispatcher
\* the sequence s is strictly increasing
Increasing(s) == \A m \in DOMAIN s, n \in DOMAIN s : m < n => s[m] < s[n]

\* the numbers of the commands in the queue, oldest first
QueueIds == [n \in DOMAIN queue |-> queue[n].id]

\* C12: process(handler) gives the handler the commands in the order they
\* were dispatched, each once: first the ones pending when process was
\* called, then the ones the handler dispatched meanwhile; and when process
\* has returned the queue is empty, every command dispatched so far has left
\* the queue and every command dispatched during the call has been handled
\* in it.
C12_ProcessDrainsFifo ==
    call.op = "process" =>
        /\ Increasing(call.handled)
        /\ \A n \in DOMAIN call.handled :
               IF n <= Len(call.pending) THEN call.handled[n] = call.pending[n]
               ELSE \E c \in dispatched : c.id = call.handled[n] /\ c.by = "handler"
        /\ call.state = "returned" =>
               /\ queue = <<>>
               /\ Len(call.handled) >= Len(call.pending)
               /\ \A c \in dispatched : c.id \in Range(out)
               /\ \A c \in dispatched : c.id >= call.from => c.id \in Range(call.handled)

\* C12 witness: process returned after handling two pending commands and
\* then two commands its handler dispatched.
C12_Witness ==
    /\ call.op = "process" /\ call.state = "returned"
    /\ Len(call.pending) = 2
    /\ Len(call.handled) = 4

\* C13: whatever the interleaving, the commands that left the queue followed
\* by the ones still queued are the dispatched commands in dispatch order;
\* pop returns and removes the oldest queued command only; pop_all returns
\* the whole queue oldest first and leaves it empty.
C13_QueueIsFifo ==
    /\ [](out \o QueueIds = [n \in 1..(nextCmd - 1) |-> n])
    /\ [][(call'.op = "pop" /\ call' # call /\ call'.err = "none") =>
            /\ call'.ret = queue[1].id
            /\ queue' = SubSeq(queue, 2, Len(queue))]_vars
    /\ [][(call'.op = "pop_all" /\ call' # call) =>
            /\ call'.ret = QueueIds
            /\ queue' = <<>>]_vars

\* C13 witness: pop returned the second command while a younger one was
\* queued, after the first had been popped and a fourth was dispatched later.
C13_Witness ==
    /\ call.op = "pop" /\ call.err = "none" /\ call.ret = 2
    /\ Len(queue) = 2
    /\ out = <<1, 2>>

\* C23: pop on an empty queue raises IndexError, which no pop that returns a
\* command does, and leaves the queue empty; no command is recorded as having
\* left the queue.
C23_PopEmptyRaises ==
    /\ [][(call'.op = "pop" /\ call' # call) =>
            /\ (call'.err = "IndexError") = (queue = <<>>)
            /\ call'.err \in {"IndexError", "none"}
            /\ queue = <<>> => (queue' = <<>> /\ out' = out)]_vars
    /\ []((call.op = "pop" /\ call.err = "IndexError") => queue = <<>>)

\* C23 witness: pop raised after the two commands dispatched had been popped.
C23_Witness ==
    /\ call.op = "pop" /\ call.err = "IndexError"
    /\ out = <<1, 2>>

\* the components of type t that entity holds in comps: one or none
ComponentOf(comps, entity, t) ==
    IF HasComponent(comps, entity, t) THEN {comps[t][entity]} ELSE {}

\* C24: add_component(id, c) leaves c as the component of its type held by
\* id, whatever id held before and whether or not id was ever created, and
\* changes the component of no other entity and of no other type.
C24_AddOverwritesOwnSlot ==
    [][last'.op = "add" =>
        /\ ComponentOf(components', last'.id, last'.type) = {last'.value}
        /\ \A e \in QIds, t \in Types :
              (e # last'.id \/ t # last'.type) =>
                  ComponentOf(components', e, t) = ComponentOf(components, e, t)]_vars

\* C24 witness: a never-created entity's component was overwritten by a second
\* add while another entity held a component of the same type.
C24_Witness ==
    /\ last.op = "add" /\ ~last.wasLive /\ last.id = 0
    /\ last.type \in last.had /\ last.value = 2
    /\ ComponentOf(components, 1, last.type) = {1}

\* C25: remove_component(id, T) returns true exactly when id held a component
\* of T, and then removes that component and nothing else; otherwise, even for
\* a type the store has never seen, it returns false and leaves every
\* component as it was.
C25_RemoveReportsAndRemovesOne ==
    [][last'.op = "remove" =>
        /\ last'.removed = (ComponentOf(components, last'.id, last'.type) # {})
        /\ ComponentOf(components', last'.id, last'.type) = {}
        /\ \A e \in QIds, t \in Types :
              (e # last'.id \/ t # last'.type) =>
                  ComponentOf(components', e, t) = ComponentOf(components, e, t)
        /\ ~last'.removed => components' = components]_vars

\* C25 witness: a remove returned true while the entity kept its component of
\* another type and another entity kept its component of the removed type.
C25_Witness ==
    /\ last.op = "remove" /\ last.removed /\ last.id = 0 /\ last.type = "A"
    /\ ComponentOf(components, 0, "B") # {}
    /\ ComponentOf(components, 1, "A") # {}

\* C16: when a system's update or a handler raises during step, control is
\* back at the caller with the exception and the step is not counted; of the
\* systems of the step, the failing one ran once and none after it ran, and
\* no command was routed; or, when a handler raised, the failing command was
\* routed once and no command after it in the batch was routed.
C16_ExceptionsPropagate ==
    /\ [](outcome = "raised" =>
            /\ pc = "idle"
            /\ stepLog[stepNo].outcome = "raised"
            /\ IF ~WorldStepReturned(i, snapshot)
               THEN /\ runLog # <<>>
                    /\ runLog[Len(runLog)] = snapshot[i].sys
                    /\ Cardinality({n \in DOMAIN runLog : runLog[n] = snapshot[i].sys}) = 1
                    /\ \A n \in (i + 1)..Len(snapshot) : snapshot[n].sys \notin Range(runLog)
                    /\ \A n \in DOMAIN routeLog : routeLog[n].step # stepNo
               ELSE /\ j <= Len(commands)
                    /\ Cardinality(RoutesOf(commands[j])) = 1
                    /\ \A n \in (j + 1)..Len(commands) : RoutesOf(commands[n]) = {})
    /\ [][(outcome' = "raised" /\ outcome # "raised") =>
            (pc' = "idle" /\ steps' = steps)]_vars

\* C16 witness: a handler raised on the first of two commands in the second
\* step, after the second of two systems had raised in the first step.
C16_Witness ==
    /\ stepNo = 2 /\ outcome = "raised" /\ stepLog[1].outcome = "raised"
    /\ WorldStepReturned(i, snapshot)
    /\ j < Len(commands)
    /\ Len(snapshot) = 2

\* ------------------------------------------------ claims: the CommandRouter
\* the step calls that have returned without raising
CompletedSteps == {n \in DOMAIN stepLog : stepLog[n].outcome = "ok"}

\* C26: steps is the number of step calls that returned without raising, and
\* each of them adds exactly one, once every system of the snapshot has been
\* passed and every command popped from the queue has been routed.
C26_StepsCountsCompletedSteps ==
    /\ [](steps = Cardinality(CompletedSteps))
    /\ [][steps' # steps =>
            /\ steps' = steps + 1
            /\ pc \in {"systems", "route"} /\ pc' = "idle"
            /\ stepLog[stepNo].outcome = "running" /\ stepLog'[stepNo].outcome = "ok"
            /\ WorldStepReturned(i', snapshot')
            /\ \A n \in DOMAIN snapshot' :
                  snapshot'[n].upd => snapshot'[n].sys \in Range(runLog')
            /\ j' > Len(commands')
            /\ Cardinality({n \in DOMAIN routeLog' : routeLog'[n].step = stepNo'})
                  = Len(commands')
            /\ commands' = queue \/ commands' = commands]_vars

\* C26 witness: the second step completed, with one system run and a command
\* routed, after the first had raised: two calls, steps is one.
C26_Witness ==
    /\ stepNo = 2 /\ pc = "idle" /\ steps = 1
    /\ stepLog[1].outcome = "raised" /\ stepLog[2].outcome = "ok"
    /\ runLog # <<>>
    /\ \E n \in DOMAIN routeLog : routeLog[n].step = 2

\* the program's store: Store._next_id, Store._free_ids, Store._components
StoreState == <<next_id, free_ids, components>>

\* a system's update is running and makes a call on the store
BySystem ==
    /\ pc = "systems" /\ pc' = "systems"
    /\ i <= Len(snapshot) /\ i' = i
    /\ snapshot[i].upd
    /\ call'.op = "update" /\ call'.sys = snapshot[i].sys

\* a bound handler is invoked on the next command of the batch
ByHandler ==
    /\ pc = "route"
    /\ j <= Len(commands)
    /\ HandlerFor(handlers, commands[j]) # NoHandler
    /\ Len(routeLog') = Len(routeLog) + 1

RoutedIn(c, n) == {k \in RoutesOf(c) : routeLog[k].step = n}

\* the route calls made in step n
RoutesOfStep(n) == {k \in DOMAIN routeLog : routeLog[k].step = n}

\* step n has returned
StepReturned(n) == n \in DOMAIN stepLog /\ (n < stepNo \/ pc = "idle")

\* step n ended with an exception raised by a system: nothing was routed in it
SystemsRaised(n) ==
    /\ n \in DOMAIN stepLog
    /\ stepLog[n].outcome = "raised"
    /\ RoutesOfStep(n) = {}

\* the systems of step n all completed: its routing phase was reached
SystemsCompleted(n) ==
    /\ n \in DOMAIN stepLog
    /\ n < stepNo \/ pc \in {"idle", "route"}
    /\ ~SystemsRaised(n)

\* the first step after step m whose systems all completed, if there is one
NextCompleting(m) ==
    {n \in (m + 1)..stepNo :
        SystemsCompleted(n) /\ \A x \in (m + 1)..(n - 1) : SystemsRaised(x)}

\* the commands dispatched by systems in a step in which a later system raised
Stranded == {c \in dispatched : c.by = "system" /\ SystemsRaised(c.step)}

\* a system's raise leaves the step counter and the queue as they are, with
\* the commands dispatched in the step queued and unrouted
SystemRaiseKeepsQueue ==
    [][(outcome' = "raised" /\ outcome # "raised" /\ pc = "systems") =>
        /\ steps' = steps
        /\ queue' = queue
        /\ \A c \in dispatched : c.step = stepNo =>
              c \in Range(queue') /\ RoutesOf(c) = {}]_vars

\* a stranded command is routed nowhere but in the next step whose systems
\* all complete, and until then it is queued; there, a newer command is
\* routed only after it
StrandedWaits(c) ==
    /\ \A k \in RoutesOf(c) : routeLog[k].step \in NextCompleting(c.step)
    /\ NextCompleting(c.step) = {} => c \in Range(queue)
    /\ \A n \in NextCompleting(c.step), d \in dispatched :
          d.id > c.id => \A kd \in RoutedIn(d, n) : \E kc \in RoutedIn(c, n) : kc < kd

\* C29 as stated: when a system raises, steps and the queue are unchanged and
\* the commands dispatched earlier in the step stay queued, unrouted; each is
\* routed, before any newer command, in the next step whose systems all
\* complete.
C29_StrandedRoutedNextStep ==
    /\ SystemRaiseKeepsQueue
    /\ [](\A c \in Stranded :
            /\ StrandedWaits(c)
            /\ \A n \in NextCompleting(c.step) :
                  StepReturned(n) => RoutedIn(c, n) # {})

\* the last route call made in step n
LastRouteOf(n) == CHOOSE k \in RoutesOfStep(n) : \A m \in RoutesOfStep(n) : m <= k

\* C29 amended: when a system raises, steps and the queue are unchanged and
\* the commands dispatched earlier in the step stay queued, unrouted; in the
\* next step whose systems all complete each is routed, before any newer
\* command, unless a handler raised on a command queued before it.
C29_StrandedRoutedUnlessHandlerRaises ==
    /\ SystemRaiseKeepsQueue
    /\ [](\A c \in Stranded :
            /\ StrandedWaits(c)
            /\ \A n \in NextCompleting(c.step) :
                  StepReturned(n) =>
                      \/ RoutedIn(c, n) # {}
                      \/ /\ stepLog[n].outcome = "raised"
                         /\ routeLog[LastRouteOf(n)].id < c.id
                         /\ routeLog[LastRouteOf(n)].h # NoHandler)

\* C29 witness: in the first step two systems dispatched and the third
\* raised; the second step routed both commands, in the order dispatched.
C29_Witness ==
    /\ stepNo = 2 /\ pc = "idle" /\ outcome = "ok"
    /\ Cardinality(Stranded) = 2
    /\ \A c \in Stranded : c.step = 1 /\ RoutedIn(c, 2) # {}
    /\ routeLog[1].id < routeLog[2].id

\* command c has not been routed, is not queued and is not waiting in the
\* batch being routed
Lost(c) ==
    /\ RoutesOf(c) = {}
    /\ c \notin Range(queue)
    /\ ~(pc = "route" /\ \E n \in j..Len(commands) : commands[n] = c)

\* C30: when a handler raises during the routing phase of a step, steps is
\* not incremented and the commands behind the failing one in the batch are
\* unrouted and no longer queued; a command in that condition is never
\* queued or routed again.
C30_BatchTailLost ==
    /\ [][(outcome' = "raised" /\ outcome # "raised" /\ pc = "route") =>
            /\ steps' = steps
            /\ pc' = "idle"
            /\ RoutesOf(commands[j])' # {}
            /\ \A c \in dispatched :
                  (\E n \in (j + 1)..Len(commands) : commands[n] = c) => Lost(c)']_vars
    /\ [][\A c \in dispatched : Lost(c) => Lost(c)']_vars

\* C30 witness: a second step has completed after the first one, in which the
\* handler of the first of two commands raised; the second command is lost.
C30_Witness ==
    /\ stepNo = 2 /\ pc = "idle" /\ outcome = "ok" /\ steps = 1
    /\ stepLog[1].outcome = "raised"
    /\ \E c, d \in dispatched :
          /\ c.step = 1 /\ d.step = 1 /\ d.id < c.id
          /\ RoutedIn(d, 1) # {} /\ routeLog[LastRouteOf(1)].id = d.id
          /\ Lost(c)

\* C14: register(T, h2) while T is bound raises and leaves the handler map as
\* it was; and as long as T is not unregistered, the handler that was bound
\* then stays bound and every command of type T routed since was given to it.
C14_SecondRegisterRefused ==
    /\ [][(call'.op = "register" /\ call' # call /\ call'.type \in DOMAIN handlers)
            => (call'.err = "ValueError" /\ handlers' = handlers)]_vars
    /\ [](refused.type # "none" =>
            /\ HandlerFor(handlers, refused) = refused.bound
            /\ \A n \in DOMAIN routeLog :
                   (n > refused.at /\ routeLog[n].type = refused.type)
                   => routeLog[n].h = refused.bound)

\* C14 witness: a command of type T was routed to h1 after register(T, h2)
\* had been refused.
C14_Witness ==
    /\ refused.type # "none"
    /\ refused.h # refused.bound
    /\ \E n \in DOMAIN routeLog :
           n > refused.at /\ routeLog[n].type = refused.type /\ routeLog[n].h = refused.bound

\* the route calls of the handle_all call that returned last
RoutesOfCall == SubSeq(routeLog, call.from + 1, Len(routeLog))

\* C15: when handle_all returns, it has routed each command of the batch
\* once, in the order given, to the handler bound to its type if there is
\* one; and the mapping returned has, for each type with a bound handler and
\* at least one command in the batch, the number of these commands, and no
\* other type.
C15_HandleAllRoutesBatch ==
    (call.op = "handle_all" /\ call.state = "returned") =>
        /\ Len(RoutesOfCall) = Len(commands)
        /\ \A n \in DOMAIN commands :
               /\ RoutesOfCall[n].id = commands[n].id
               /\ RoutesOfCall[n].h = HandlerFor(handlers, commands[n])
        /\ \A t \in CmdTypes :
               LET routed == {n \in DOMAIN commands :
                                commands[n].type = t /\ t \in DOMAIN handlers}
               IN  IF routed = {} THEN t \notin DOMAIN call.ret
                   ELSE t \in DOMAIN call.ret /\ call.ret[t] = Cardinality(routed)

\* C15 witness: handle_all returned after a command of an unbound type
\* followed by a command of a bound type.
C15_Witness ==
    /\ call.op = "handle_all" /\ call.state = "returned"
    /\ Len(commands) = 2
    /\ commands[1].type = "Bump" /\ commands[2].type = "Move"
    /\ DOMAIN handlers = {"Move"}
    /\ call.ret = [t \in {"Move"} |-> 1]

\* ----------------------------------------------------- claims: the EventBus
\* the subscriptions of all event types
AllSubs(ss) == UNION {Range(ss[et]) : et \in DOMAIN ss}

\* C17: each subscriber list is in registration order; and an emit that has
\* ended has ended by returning, after it invoked once, in the order of the
\* list, every handler that was subscribed to the type of the event when emit
\* was called, those after a handler that raised included.
C17_EmitInvokesAllInOrder ==
    /\ \A et \in DOMAIN subs :
           \A m \in DOMAIN subs[et], n \in DOMAIN subs[et] :
               m < n => subs[et][m].token[2] < subs[et][n].token[2]
    /\ pc = "emit" => Len(invoked) = emit_i - 1
    /\ (call.op = "emit" /\ pc = "idle") =>
           /\ outcome = "ok"
           /\ Len(invoked) = Len(emitting.list)
           /\ \A n \in DOMAIN invoked :
                  /\ invoked[n].token = emitting.list[n].token
                  /\ invoked[n].h = emitting.list[n].h

\* C17 witness: an emit returned after its first handler raised and two
\* handlers registered later were invoked.
C17_Witness ==
    /\ call.op = "emit" /\ pc = "idle"
    /\ Len(invoked) = 3
    /\ invoked[1].raised
    /\ ~invoked[3].raised

\* C18: off(token) returns true exactly when a subscription with that token
\* exists; then that subscription is gone and every other one remains, in
\* the same order; otherwise nothing changes. A token is never given to two
\* subscriptions, so off with the token of a removed subscription returns
\* false.
C18_OffRemovesExactlyOne ==
    /\ [][(call'.op = "off" /\ call' # call) =>
            LET token == call'.token
                list == SubsOf(subs, token[1])
                others == [et \in DOMAIN subs |->
                             SelectSeq(subs[et], LAMBDA x : x.token # token)]
            IN  /\ call'.ret = (\E x \in AllSubs(subs) : x.token = token)
                /\ subs' = others
                /\ call'.ret => Cardinality(AllSubs(subs')) = Cardinality(AllSubs(subs)) - 1
                /\ ~call'.ret => subs' = subs]_vars
    /\ [](\A x \in AllSubs(subs) : x.token[2] < bus_next_id)
    /\ [](\A et \in DOMAIN subs : \A m \in DOMAIN subs[et], n \in DOMAIN subs[et] :
             subs[et][m].token = subs[et][n].token => m = n)

\* C18 witness: off returned false for the token of a subscription removed
\* before, while another subscription of the same handler to the same event
\* type and one of another handler are still there.
C18_Witness ==
    /\ call.op = "off" /\ ~call.ret
    /\ call.token = <<"E", 1>>
    /\ bus_next_id = 3
    /\ DOMAIN subs = {"E"} /\ Len(subs["E"]) = 2
    /\ subs["E"][1].h = "g1" /\ subs["E"][2].h = "g1"

\* --------------------------------------------------- claims: the serializer
\* the associations of a component map: (entity, type, value)
Assoc(comps) ==
    UNION {{<<e, t, comps[t][e]>> : e \in DOMAIN comps[t]} : t \in DOMAIN comps}

\* the part of a map from types whose types are reconstructable
ReconPart(m) == [t \in {x \in DOMAIN m : Reconstructable(x)} |-> m[t]]

\* the world saved had a component of a type that is not reconstructable
HadFailingComponent ==
    \E t \in DOMAIN loadedFrom.components :
        DOMAIN loadedFrom.components[t] # {} /\ ~Reconstructable(t)

C20_LoadSkipsUnreconstructable ==
    last.op = "load" =>
        /\ loadedFrom.err = "none"
        /\ Assoc(components) = Assoc(ReconPart(loadedFrom.components))
        /\ resources = ReconPart(loadedFrom.resources)

\* C20 as amended: when no component of the snapshot is of a type that is not
\* reconstructable, load_into_world does not raise and loads every component
\* and every resource of a reconstructable type, skipping the other
\* resources; otherwise it raises TypeError with the counter set, no
\* resource loaded and only components of reconstructable types loaded.
C20_LoadSkipsResourcesOnly ==
    last.op = "load" =>
        IF ~HadFailingComponent
        THEN /\ loadedFrom.err = "none"
             /\ Assoc(components) = Assoc(loadedFrom.components)
             /\ resources = ReconPart(loadedFrom.resources)
        ELSE /\ loadedFrom.err = "TypeError"
             /\ next_id = loadedFrom.next_id
             /\ resources = EmptyMap
             /\ Assoc(components) \subseteq Assoc(ReconPart(loadedFrom.components))

\* C20 witness: a load that skipped a resource that is not reconstructable
\* and loaded a resource and two components that are.
C20_Witness ==
    /\ last.op = "load" /\ loadedFrom.err = "none"
    /\ DOMAIN loadedFrom.resources = ResTypes
    /\ DOMAIN resources = {"Cfg"}
    /\ Cardinality(Assoc(components)) = 2

\* -------------------------------------------- claims: the ResourceRegistry
\* C21: register(r) makes r the resource of its type and leaves the resource
\* of every other type as it was; the registry holds one resource per
\* registered type; and get(T) returns the resource the registry holds for T,
\* which is therefore the one registered last.
C21_RegisterOverwritesOwnType ==
    /\ [][(call'.op = "resources.register" /\ call' # call) =>
            /\ DOMAIN resources' = DOMAIN resources \cup {call'.type}
            /\ resources'[call'.type] = call'.value
            /\ \A t \in DOMAIN resources : t # call'.type => resources'[t] = resources[t]]_vars
    /\ [][(call'.op # "resources.register") => resources' = resources]_vars
    /\ [](call.op = "resources.register" => resources[call.type] = call.value)
    /\ []((call.op = "resources.get" /\ call.err = "none") =>
            call.ret = resources[call.type])

\* C21 witness: a resource was registered for a type that had another one,
\* while a resource of another type is registered.
C21_Witness ==
    /\ call.op = "resources.register" /\ call.type = "Cfg" /\ call.value = 2
    /\ DOMAIN resources = {"Cfg", "Buf"}
    /\ resources["Buf"] = 1

\* C22: get(T) raises KeyError exactly when no resource of type T is
\* registered, which is when has(T) is false; get_or(T, d) never raises and
\* returns d in that case and the registered resource otherwise; and get,
\* get_or and has leave the registry unchanged.
C22_GetFailsIffAbsent ==
    /\ [](call.op = "resources.get" =>
            /\ (call.err = "KeyError") = (call.type \notin DOMAIN resources)
            /\ call.err \in {"KeyError", "none"})
    /\ [](call.op = "resources.has" => call.ret = (call.type \in DOMAIN resources))
    /\ [](call.op = "resources.get_or" =>
            /\ call.err = "none"
            /\ call.ret = IF call.type \in DOMAIN resources
                          THEN resources[call.type] ELSE call.default)
    /\ [][(call'.op \in {"resources.get", "resources.get_or", "resources.has"})
            => resources' = resources]_vars

\* C22 witness: get_or returned the registered resource of a type while
\* another type has none.
C22_Witness ==
    /\ call.op = "resources.get_or" /\ call.type = "Cfg" /\ call.ret = 2
    /\ "Buf" \notin DOMAIN resources

=========================================================================
